---- MODULE Spec2Model ----
(***************************************************************************)
(* A model of the bilingual caption video generator: the render pipeline   *)
(* of app/video_composer.py (build_video) with the collaborators it calls  *)
(* (tts_layer, cleanup, backgrounds, caption_renderer) and the two front   *)
(* ends that start it (app/cli.py, app.py).                                *)
(*                                                                         *)
(* Times are integers in milliseconds: 0.2 s is 200, 0.12 s is 120.        *)
(***************************************************************************)
EXTENDS Integers, Sequences, FiniteSets, TLC

VARIABLES
    pc,             \* position of the run: idle, the steps of build_video, done, failed, aborted
    caller,         \* which front end started the run: "none", "cli", "web", "direct"
    script,         \* the JSON value stored in the script file
    background,     \* build_video's background_path: "none", "ok" (readable), "bad" (unreadable)
    bgm,            \* build_video's bgm_path: [given, loads, duration]
    logOn,          \* build_video's log argument is a callable (TRUE) or None (FALSE)
    fontsOK,        \* both resolved font files exist and load
    bg_final,       \* path number of the prepared background image, 0 before it exists
    idx,            \* enumerate() index of the segment being processed, from 1
    en_tts,         \* TTSAudio of the current segment's English speech
    ur_tts,         \* TTSAudio of the current segment's Urdu speech
    clips,          \* the clips list of build_video
    final,          \* the assembled timeline
    tempDirs,       \* the temp/ directory tree exists
    tempFiles,      \* the temp files that exist, by path number
    nextPath,       \* the next unused mkstemp path number
    outputFile,     \* what is at output_path: "untouched", "partial", "complete"
    error,          \* the exception build_video (or the front end) ended with, "" if none
    logLines,       \* the messages handed to the log callback
    events,         \* the external calls build_video has issued, in order
    openFiles,      \* temp paths an AudioFileClip reader of this run holds open
    noCleanup,      \* the command line carried --no-cleanup
    finished,       \* the front end has left its try/finally block
    calc            \* a helper function under examination: its name, arguments and result

vars == <<pc, caller, script, background, bgm, logOn, fontsOK, bg_final, idx, en_tts, ur_tts,
          clips, final, tempDirs, tempFiles, nextPath, outputFile, error, logLines, events,
          openFiles, noCleanup, finished, calc>>

\* ---------------------------------------------------------------- bounds
MaxSegs == 2

\* ---------------------------------------------------------------- program constants
TeachingGap == 200
AudioFade == 120
VideoFade == 500
VIDEO_WIDTH == 1080
VIDEO_HEIGHT == 1920
FPS == 24

\* ---------------------------------------------------------------- JSON values of a script
\* A JSON number or null stored under pause_after / min_duration.
Num(n) == [isnull |-> FALSE, n |-> n]
Null == [isnull |-> TRUE, n |-> 0]

\* dict.get(key, default)
PyGet(pair, key, default) == IF key \in DOMAIN pair THEN pair[key] ELSE default

\* float(v or 0.0): None and 0 are falsy and give 0.0
FloatOrZero(v) == IF v.isnull \/ v.n = 0 THEN 0 ELSE v.n

\* The script entries the model draws from: the keys a script object may carry.
\* min_duration values are >= 0; pause_after also takes a negative value, which
\* build_video does not reject.
Entries ==
    { [en |-> "Hi", ur |-> "Salam"],
      [en |-> "Hi", ur |-> "Salam", min_duration |-> Num(5000)],
      [en |-> "Book", ur |-> "Kitab", pause_after |-> Num(500), min_duration |-> Num(0)],
      [en |-> "Book", ur |-> "Kitab", pause_after |-> Null, min_duration |-> Null],
      [en |-> "Go", ur |-> "Jao", pause_after |-> Num(-3000)],
      [pause_after |-> Num(1000)] }

RECURSIVE SeqsUpTo(_, _)
SeqsUpTo(S, n) ==
    IF n = 0 THEN {<<>>}
    ELSE LET shorter == SeqsUpTo(S, n - 1)
         IN  shorter \cup {Append(s, e) : s \in {t \in shorter : Len(t) = n - 1}, e \in S}

\* What json.load may return from the script file: a list of objects, or a non-list.
Scripts ==
    {[isList |-> TRUE, items |-> s] : s \in SeqsUpTo(Entries, MaxSegs)}
        \cup {[isList |-> FALSE, items |-> <<>>]}

\* Speech durations edge-tts may produce for a text in a voice, as pydub
\* measures them: nothing to say lasts 0.
SpeechDurations(voice, text) ==
    IF text = "" THEN {0}
    ELSE IF voice = "english" THEN {1000, 1200} ELSE {1200}

\* Background music files: absent, corrupt, or loadable with a duration.
\* path is the temp path the file was saved under, 0 for a file outside temp/.
NoBgm == [given |-> FALSE, loads |-> FALSE, duration |-> 0, path |-> 0]
BgmFiles ==
    {NoBgm, [given |-> TRUE, loads |-> FALSE, duration |-> 0, path |-> 0]}
        \cup {[given |-> TRUE, loads |-> TRUE, duration |-> d, path |-> 0] :
                  d \in {0, 700, 2400, 20000}}

NoTTS == [path |-> 0, duration |-> 0]
NoCalc == [fn |-> "none"]
NoFinal == [duration |-> 0, starts |-> <<>>, audio |-> "none", bgmLen |-> 0,
            loops |-> 0, fps |-> 0, size |-> <<0, 0>>]

\* ---------------------------------------------------------------- temp files (app/cleanup.py)
\* get_temp_*_path: ensure_temp_dirs(), then mkstemp creates a new, unique, empty file.
TempFile(path, kind) == [path |-> path, kind |-> kind]

\* One external call issued by build_video: the operation, the segment it is
\* for (0 when it is for the whole run) and the temp path it returned (0 if none).
Call(op, seg, path) == [op |-> op, seg |-> seg, path |-> path]

\* ---------------------------------------------------------------- segment timing
\* Schedule with pause_after read from the min_duration key (a copied line).
ScheduleMinAsPause(en_duration, ur_duration, pair) ==
    LET pause_after == FloatOrZero(PyGet(pair, "min_duration", Num(0)))
        min_duration == FloatOrZero(PyGet(pair, "min_duration", Num(0)))
        ur_start == en_duration + TeachingGap
        total_audio_duration == ur_start + ur_duration + pause_after
    IN  [en_start |-> 0,
         ur_start |-> ur_start,
         total |-> IF total_audio_duration < min_duration
                   THEN min_duration ELSE total_audio_duration]

\* Schedule with the teaching gap left out of the Urdu start.
ScheduleNoGap(en_duration, ur_duration, pair) ==
    LET pause_after == FloatOrZero(PyGet(pair, "pause_after", Num(0)))
        min_duration == FloatOrZero(PyGet(pair, "min_duration", Num(0)))
        ur_start == en_duration
        total_audio_duration == ur_start + ur_duration + pause_after
    IN  [en_start |-> 0,
         ur_start |-> ur_start,
         total |-> IF total_audio_duration < min_duration
                   THEN min_duration ELSE total_audio_duration]

\* Schedule with min_duration applied as a cap (the comparison reversed).
ScheduleCap(en_duration, ur_duration, pair) ==
    LET pause_after == FloatOrZero(PyGet(pair, "pause_after", Num(0)))
        min_duration == FloatOrZero(PyGet(pair, "min_duration", Num(0)))
        ur_start == en_duration + TeachingGap
        total_audio_duration == ur_start + ur_duration + pause_after
    IN  [en_start |-> 0,
         ur_start |-> ur_start,
         total |-> IF total_audio_duration > min_duration
                   THEN min_duration ELSE total_audio_duration]

\* Schedule with pause_after ignored.
ScheduleNoPause(en_duration, ur_duration, pair) ==
    LET min_duration == FloatOrZero(PyGet(pair, "min_duration", Num(0)))
        ur_start == en_duration + TeachingGap
        total_audio_duration == ur_start + ur_duration
    IN  [en_start |-> 0,
         ur_start |-> ur_start,
         total |-> IF total_audio_duration < min_duration
                   THEN min_duration ELSE total_audio_duration]

\* Lines 65-74 of build_video: the start offsets and the duration of one segment.
Schedule(en_duration, ur_duration, pair) ==
    LET teaching_gap == TeachingGap
        pause_after == FloatOrZero(PyGet(pair, "pause_after", Num(0)))
        min_duration == FloatOrZero(PyGet(pair, "min_duration", Num(0)))
        en_start == 0
        ur_start == en_duration + teaching_gap
        total_audio_duration == ur_start + ur_duration + pause_after
    IN  [en_start |-> en_start,
         ur_start |-> ur_start,
         total |-> IF total_audio_duration < min_duration
                   THEN min_duration ELSE total_audio_duration]

\* MakeClip with the video fade shortened to half of a short clip.
MakeClipScaledFade(i, pair, en, ur, bg) ==
    LET t == Schedule(en.duration, ur.duration, pair)
    IN  [seg |-> i,
         en_text |-> PyGet(pair, "en", ""),
         ur_text |-> PyGet(pair, "ur", ""),
         bg |-> bg,
         width |-> VIDEO_WIDTH,
         height |-> VIDEO_HEIGHT,
         en_path |-> en.path,
         ur_path |-> ur.path,
         en_duration |-> en.duration,
         ur_duration |-> ur.duration,
         en_start |-> t.en_start,
         ur_start |-> t.ur_start,
         en_end |-> t.en_start + en.duration,
         ur_end |-> t.ur_start + ur.duration,
         duration |-> t.total,
         audio_fade |-> AudioFade,
         video_fade |-> IF t.total < 2 * VideoFade THEN t.total \div 2 ELSE VideoFade]

\* MakeClip that captions every segment with the texts of the first pair.
MakeClipStalePair(i, pair, en, ur, bg) ==
    LET t == Schedule(en.duration, ur.duration, pair)
        first == script.items[1]
    IN  [seg |-> i,
         en_text |-> PyGet(first, "en", ""),
         ur_text |-> PyGet(first, "ur", ""),
         bg |-> bg,
         width |-> VIDEO_WIDTH,
         height |-> VIDEO_HEIGHT,
         en_path |-> en.path,
         ur_path |-> ur.path,
         en_duration |-> en.duration,
         ur_duration |-> ur.duration,
         en_start |-> t.en_start,
         ur_start |-> t.ur_start,
         en_end |-> t.en_start + en.duration,
         ur_end |-> t.ur_start + ur.duration,
         duration |-> t.total,
         audio_fade |-> AudioFade,
         video_fade |-> VideoFade]

\* Lines 76-96: the clip of one segment. The frame is rendered from the pair's
\* texts over bg_final; the mixed audio is the two speech tracks at their starts;
\* the fades change neither the duration nor the content order.
MakeClip(i, pair, en, ur, bg) ==
    LET t == Schedule(en.duration, ur.duration, pair)
    IN  [seg |-> i,
         en_text |-> PyGet(pair, "en", ""),
         ur_text |-> PyGet(pair, "ur", ""),
         bg |-> bg,
         width |-> VIDEO_WIDTH,
         height |-> VIDEO_HEIGHT,
         en_path |-> en.path,
         ur_path |-> ur.path,
         en_duration |-> en.duration,
         ur_duration |-> ur.duration,
         en_start |-> t.en_start,
         ur_start |-> t.ur_start,
         en_end |-> t.en_start + en.duration,
         ur_end |-> t.ur_start + ur.duration,
         duration |-> t.total,
         audio_fade |-> AudioFade,
         video_fade |-> VideoFade]

\* ---------------------------------------------------------------- assembly
RECURSIVE SumDurations(_)
SumDurations(cs) ==
    IF cs = <<>> THEN 0 ELSE SumDurations(SubSeq(cs, 1, Len(cs) - 1)) + cs[Len(cs)].duration

\* Concatenation that overlaps neighbouring clips by the video fade (a crossfade).
ConcatenateCrossfade(cs) ==
    [duration |-> SumDurations(cs) - (Len(cs) - 1) * VideoFade,
     starts |-> [i \in 1..Len(cs) |-> SumDurations(SubSeq(cs, 1, i - 1)) - (i - 1) * VideoFade],
     audio |-> "speech",
     bgmLen |-> 0,
     loops |-> 0,
     fps |-> FPS,
     size |-> <<VIDEO_WIDTH, VIDEO_HEIGHT>>]

\* concatenate_videoclips(clips, method="compose"): clip i starts where clip i-1
\* ends (tt = cumsum of the durations) and the result lasts tt[-1]; set_fps and
\* resize keep the duration.
ConcatenateClips(cs) ==
    [duration |-> SumDurations(cs),
     starts |-> [i \in 1..Len(cs) |-> SumDurations(SubSeq(cs, 1, i - 1))],
     audio |-> "speech",
     bgmLen |-> 0,
     loops |-> 0,
     fps |-> FPS,
     size |-> <<VIDEO_WIDTH, VIDEO_HEIGHT>>]

\* The loop count without the extra copy.
LoopsFloor(video_duration, bgm_duration) == video_duration \div bgm_duration

\* int(video_duration / bgm_audio.duration) + 1, for a positive quotient
LoopsNeeded(video_duration, bgm_duration) == (video_duration \div bgm_duration) + 1

\* Clip.subclip(0, t_end) of moviepy: the result lasts t_end; a negative t_end
\* counts back from the end of the clip.
SubclipDuration(clip_duration, t_end) ==
    IF t_end < 0 THEN clip_duration + t_end ELSE t_end

\* Lines 105-125, the body of the try block. ok = FALSE when a step raises.
BgmStep(f, music) ==
    LET video_duration == f.duration
        needsLoop == music.duration < video_duration
        loops == IF needsLoop /\ music.duration # 0
                 THEN LoopsNeeded(video_duration, music.duration) ELSE 0
        looped == IF needsLoop THEN loops * music.duration ELSE music.duration
        trimmed == SubclipDuration(looped, video_duration)
    IN  IF ~music.loads THEN [ok |-> FALSE, why |-> "load", final |-> f]
        ELSE IF needsLoop /\ music.duration = 0
        THEN [ok |-> FALSE, why |-> "loop", final |-> f]
        ELSE [ok |-> TRUE, why |-> "",
              final |-> [f EXCEPT !.audio = "speech+bgm", !.bgmLen = trimmed,
                                  !.loops = loops]]

\* The variables of a build_video run.
buildVars == <<pc, caller, script, background, bgm, logOn, fontsOK, bg_final, idx, en_tts,
               ur_tts, clips, final, tempDirs, tempFiles, nextPath, outputFile, error,
               logLines, events, openFiles, noCleanup, finished>>

\* No run has started.
NotStarted ==
    /\ pc = "idle"
    /\ caller = "none"
    /\ script = [isList |-> FALSE, items |-> <<>>]
    /\ background = "none"
    /\ bgm = NoBgm
    /\ logOn = FALSE
    /\ fontsOK = TRUE
    /\ bg_final = 0
    /\ idx = 0
    /\ en_tts = NoTTS
    /\ ur_tts = NoTTS
    /\ clips = <<>>
    /\ final = NoFinal
    /\ tempDirs = FALSE
    /\ tempFiles = {}
    /\ nextPath = 1
    /\ outputFile = "untouched"
    /\ error = ""
    /\ logLines = <<>>
    /\ events = <<>>
    /\ openFiles = {}
    /\ noCleanup = FALSE
    /\ finished = FALSE

Init ==
    /\ NotStarted
    /\ calc = NoCalc

\* ---------------------------------------------------------------- front ends
\* app/cli.py main(): the script path, the optional background and fonts come
\* from the command line; a log callback is always passed, music never.
StartCLI ==
    /\ pc = "idle"
    /\ \E s \in Scripts, b \in {"none", "ok", "bad"}, f \in BOOLEAN, n \in BOOLEAN :
        /\ script' = s
        /\ background' = b
        /\ fontsOK' = f
        /\ noCleanup' = n
    /\ UNCHANGED <<openFiles, finished, calc>>
    /\ caller' = "cli"
    /\ bgm' = NoBgm
    /\ logOn' = TRUE
    /\ pc' = "load"
    /\ UNCHANGED <<bg_final, idx, en_tts, ur_tts, clips, final, tempDirs, tempFiles,
                   nextPath, outputFile, error, logLines, events>>

\* app.py main(), the "Generate Video" branch up to the build_video call: the
\* script text is parsed and written to a temp script file, an uploaded
\* background is saved and prepared, uploaded music is saved. No log callback.
StartWeb ==
    /\ pc = "idle"
    /\ caller' = "web"
    /\ logOn' = FALSE
    /\ \E validJson \in BOOLEAN, s \in Scripts, b \in {"none", "ok", "bad"},
          m \in BgmFiles, f \in BOOLEAN :
        LET scriptFile == TempFile(nextPath, "script")
            bgTmp == TempFile(nextPath + 1, "image")
            bgOut == TempFile(nextPath + 2, "image")
            nBg == IF b = "none" THEN 0 ELSE IF b = "bad" THEN 1 ELSE 2
            bgFiles == IF b = "none" THEN {} ELSE IF b = "bad" THEN {bgTmp} ELSE {bgTmp, bgOut}
            musicFile == TempFile(nextPath + 1 + nBg, "audio")
        IN  IF ~validJson
            THEN /\ pc' = "aborted"
                 /\ error' = "JSONDecodeError"
                 /\ UNCHANGED <<script, background, bgm, fontsOK, tempDirs, tempFiles, nextPath>>
            ELSE /\ script' = s
                 /\ fontsOK' = f
                 /\ tempDirs' = TRUE
                 /\ IF b = "bad"
                    THEN /\ pc' = "aborted"
                         /\ error' = "BackgroundError"
                         /\ tempFiles' = tempFiles \cup {scriptFile} \cup bgFiles
                         /\ nextPath' = nextPath + 1 + nBg
                         /\ UNCHANGED <<background, bgm>>
                    ELSE /\ pc' = "load"
                         /\ error' = ""
                         /\ background' = b
                         /\ bgm' = IF m.given THEN [m EXCEPT !.path = musicFile.path] ELSE m
                         /\ tempFiles' = tempFiles \cup {scriptFile} \cup bgFiles
                                            \cup (IF m.given THEN {musicFile} ELSE {})
                         /\ nextPath' = nextPath + 1 + nBg + (IF m.given THEN 1 ELSE 0)
    /\ UNCHANGED <<bg_final, idx, en_tts, ur_tts, clips, final, outputFile, logLines, events,
                   openFiles, noCleanup, finished, calc>>

\* build_video called as a function with any arguments of its signature.
StartDirect ==
    /\ pc = "idle"
    /\ caller' = "direct"
    /\ \E s \in Scripts, b \in {"none", "ok", "bad"}, m \in BgmFiles, f \in BOOLEAN,
          l \in BOOLEAN :
        /\ script' = s
        /\ background' = b
        /\ bgm' = m
        /\ fontsOK' = f
        /\ logOn' = l
    /\ pc' = "load"
    /\ UNCHANGED <<openFiles, noCleanup, finished, calc>>
    /\ UNCHANGED <<bg_final, idx, en_tts, ur_tts, clips, final, tempDirs, tempFiles,
                   nextPath, outputFile, error, logLines, events>>

\* ---------------------------------------------------------------- build_video
\* What a failed synthesis raises: asyncio.run(_edge_tts_to_file(...)) and
\* _measure_audio are not wrapped, so it is the exception of edge-tts or pydub
\* as it is, which knows neither the segment index nor the language.
TTSException == "edge_tts: exception of Communicate.save"

Fail(e) ==
    /\ pc' = "failed"
    /\ error' = e

\* LoadScript with the temp directories created before the emptiness check.
LoadScriptEnsureFirst ==
    /\ pc = "load"
    /\ IF ~script.isList
       THEN /\ Fail("ValueError: Script must be a list of {en, ur} objects")
            /\ UNCHANGED <<tempDirs, events>>
       ELSE /\ tempDirs' = TRUE
            /\ events' = Append(events, Call("ensure_temp_dirs", 0, 0))
            /\ IF script.items = <<>>
               THEN Fail("ValueError: Script is empty")
               ELSE /\ pc' = "background"
                    /\ UNCHANGED error
    /\ UNCHANGED <<caller, script, background, bgm, logOn, fontsOK, bg_final, idx, en_tts,
                   ur_tts, clips, final, tempFiles, nextPath, outputFile, logLines,
                   openFiles, noCleanup, finished, calc>>

\* Lines 39-43: _load_script, the emptiness check, ensure_temp_dirs.
LoadScript ==
    /\ pc = "load"
    /\ IF ~script.isList
       THEN /\ Fail("ValueError: Script must be a list of {en, ur} objects")
            /\ UNCHANGED <<tempDirs, events>>
       ELSE IF script.items = <<>>
       THEN /\ Fail("ValueError: Script is empty")
            /\ UNCHANGED <<tempDirs, events>>
       ELSE /\ pc' = "background"
            /\ tempDirs' = TRUE
            /\ events' = Append(events, Call("ensure_temp_dirs", 0, 0))
            /\ UNCHANGED error
    /\ UNCHANGED <<caller, script, background, bgm, logOn, fontsOK, bg_final, idx, en_tts,
                   ur_tts, clips, final, tempFiles, nextPath, outputFile, logLines,
                   openFiles, noCleanup, finished, calc>>

\* Lines 45-54: the prepared background, or the solid-colour fallback image.
PrepareBackground ==
    /\ pc = "background"
    /\ IF background = "bad"
       THEN /\ Fail("BackgroundError")
            /\ events' = Append(events, Call("prepare_background_image", 0, 0))
            /\ UNCHANGED <<bg_final, tempFiles, nextPath, clips, idx>>
       ELSE /\ pc' = "en_tts"
            /\ bg_final' = nextPath
            /\ tempFiles' = tempFiles \cup {TempFile(nextPath, "image")}
            /\ nextPath' = nextPath + 1
            /\ events' = Append(events,
                  Call(IF background = "ok" THEN "prepare_background_image"
                       ELSE "fallback_background", 0, nextPath))
            /\ clips' = <<>>
            /\ idx' = 1
            /\ UNCHANGED error
    /\ UNCHANGED <<caller, script, background, bgm, logOn, fontsOK, en_tts, ur_tts, final,
                   tempDirs, outputFile, logLines, openFiles, noCleanup, finished, calc>>

\* Lines 56-62 with generate_english_tts: the progress message, the temp audio
\* file, the synthesis call (which may raise) and the measured duration.
SegmentEnglishTTS ==
    /\ pc = "en_tts"
    /\ idx <= Len(script.items)
    /\ LET pair == script.items[idx]
           en_text == PyGet(pair, "en", "")
       IN  /\ logLines' = IF logOn THEN Append(logLines, [kind |-> "segment", seg |-> idx])
                          ELSE logLines
           /\ tempFiles' = tempFiles \cup {TempFile(nextPath, "audio")}
           /\ nextPath' = nextPath + 1
           /\ events' = Append(events, Call("generate_english_tts", idx, nextPath))
           /\ \/ /\ Fail(TTSException)
                 /\ UNCHANGED en_tts
              \/ \E d \in SpeechDurations("english", en_text) :
                    /\ en_tts' = [path |-> nextPath, duration |-> d]
                    /\ pc' = "ur_tts"
                    /\ UNCHANGED error
    /\ UNCHANGED <<caller, script, background, bgm, logOn, fontsOK, bg_final, idx, ur_tts,
                   clips, final, tempDirs, outputFile, openFiles, noCleanup, finished, calc>>

\* Lines 60, 63 with generate_urdu_tts.
SegmentUrduTTS ==
    /\ pc = "ur_tts"
    /\ LET pair == script.items[idx]
           ur_text == PyGet(pair, "ur", "")
       IN  /\ tempFiles' = tempFiles \cup {TempFile(nextPath, "audio")}
           /\ nextPath' = nextPath + 1
           /\ events' = Append(events, Call("generate_urdu_tts", idx, nextPath))
           /\ \/ /\ Fail(TTSException)
                 /\ UNCHANGED ur_tts
              \/ \E d \in SpeechDurations("urdu", ur_text) :
                    /\ ur_tts' = [path |-> nextPath, duration |-> d]
                    /\ pc' = "render"
                    /\ UNCHANGED error
    /\ UNCHANGED <<caller, script, background, bgm, logOn, fontsOK, bg_final, idx, en_tts,
                   clips, final, tempDirs, outputFile, logLines, openFiles, noCleanup, finished, calc>>

\* Lines 65-96: timing, the rendered frame (load_font raises when a font is
\* missing), the two audio tracks, the fades, clips.append.
SegmentRender ==
    /\ pc = "render"
    /\ events' = Append(events, Call("render_caption_frame", idx, 0))
    /\ IF ~fontsOK
       THEN /\ Fail("FontError")
            /\ UNCHANGED <<clips, idx, openFiles>>
       ELSE /\ clips' = Append(clips, MakeClip(idx, script.items[idx], en_tts, ur_tts, bg_final))
            /\ openFiles' = openFiles \cup {en_tts.path, ur_tts.path}
            /\ idx' = idx + 1
            /\ pc' = "en_tts"
            /\ UNCHANGED error
    /\ UNCHANGED <<caller, script, background, bgm, logOn, fontsOK, bg_final, en_tts, ur_tts,
                   final, tempDirs, tempFiles, nextPath, outputFile, logLines,
                   noCleanup, finished, calc>>

\* Concatenate reached one segment early (the loop bound off by one).
ConcatenateEarly ==
    /\ pc = "en_tts"
    /\ idx >= Len(script.items)
    /\ final' = ConcatenateClips(clips)
    /\ events' = Append(events, Call("concatenate_videoclips", 0, 0))
    /\ pc' = "bgm"
    /\ UNCHANGED <<caller, script, background, bgm, logOn, fontsOK, bg_final, idx, en_tts,
                   ur_tts, clips, tempDirs, tempFiles, nextPath, outputFile, error, logLines,
                   openFiles, noCleanup, finished, calc>>

\* Lines 99-100, reached when the loop has consumed every segment.
Concatenate ==
    /\ pc = "en_tts"
    /\ idx > Len(script.items)
    /\ final' = ConcatenateClips(clips)
    /\ events' = Append(events, Call("concatenate_videoclips", 0, 0))
    /\ pc' = "bgm"
    /\ UNCHANGED <<caller, script, background, bgm, logOn, fontsOK, bg_final, idx, en_tts,
                   ur_tts, clips, tempDirs, tempFiles, nextPath, outputFile, error, logLines,
                   openFiles, noCleanup, finished, calc>>

\* Lines 103-129: the optional music; any exception of the try block is caught,
\* reported through log when there is one, and final keeps its value.
AddBackgroundMusic ==
    /\ pc = "bgm"
    /\ IF ~bgm.given
       THEN UNCHANGED <<final, logLines, events, openFiles>>
       ELSE LET r == BgmStep(final, bgm)
            IN  /\ events' = Append(events, Call("bgm", 0, 0))
                /\ openFiles' = IF bgm.loads /\ bgm.path # 0
                                THEN openFiles \cup {bgm.path} ELSE openFiles
                /\ IF r.ok
                   THEN /\ final' = r.final
                        /\ UNCHANGED logLines
                   ELSE /\ UNCHANGED final
                        /\ logLines' = IF logOn
                                       THEN Append(logLines, [kind |-> "warning", seg |-> 0])
                                       ELSE logLines
    /\ pc' = "write"
    /\ UNCHANGED <<caller, script, background, bgm, logOn, fontsOK, bg_final, idx, en_tts,
                   ur_tts, clips, tempDirs, tempFiles, nextPath, outputFile, error,
                   noCleanup, finished, calc>>

\* Lines 131-140: the writer encodes straight into output_path; when it raises,
\* the file it had started (if any) stays there.
WriteVideo ==
    /\ pc = "write"
    /\ events' = Append(events, Call("write_videofile", 0, 0))
    /\ \/ /\ outputFile' = "complete"
          /\ pc' = "done"
          /\ UNCHANGED error
       \/ \E left \in {"partial", outputFile} :
          /\ outputFile' = left
          /\ Fail("WriteError")
    /\ UNCHANGED <<caller, script, background, bgm, logOn, fontsOK, bg_final, idx, en_tts,
                   ur_tts, clips, final, tempDirs, tempFiles, nextPath, logLines,
                   openFiles, noCleanup, finished, calc>>

\* ---------------------------------------------------------------- cleanup (app/cleanup.py)
\* What shutil.rmtree(TEMP_ROOT) may leave behind. With no file of the tree held
\* open it removes everything. build_video never closes its AudioFileClip
\* readers, and a file that is still open cannot be deleted on every platform:
\* rmtree then raises at the first such file, having removed nothing yet or
\* everything but the open files.
RmtreeLeaves(files, open) ==
    LET locked == {f \in files : f.path \in open}
    IN  IF locked = {} THEN {{}} ELSE {{}, locked, files}

\* cleanup_temp(): nothing to do without temp/; otherwise rmtree, whose
\* exception is swallowed without a message (verbose is False).
CleanupTemp ==
    IF ~tempDirs
    THEN UNCHANGED <<tempDirs, tempFiles>>
    ELSE \E left \in RmtreeLeaves(tempFiles, openFiles) :
            /\ tempFiles' = left
            /\ tempDirs' = (left # {})

\* app/cli.py main(), the finally block: cleanup_temp() unless --no-cleanup.
FinishCLI ==
    /\ caller = "cli"
    /\ pc \in {"done", "failed"}
    /\ ~finished
    /\ finished' = TRUE
    /\ IF noCleanup THEN UNCHANGED <<tempDirs, tempFiles>> ELSE CleanupTemp
    /\ UNCHANGED <<pc, caller, script, background, bgm, logOn, fontsOK, bg_final, idx, en_tts,
                   ur_tts, clips, final, nextPath, outputFile, error, logLines, events,
                   openFiles, noCleanup, calc>>

\* app.py main(), the except clauses (the error is shown) and the finally
\* block: cleanup_temp() always.
FinishWeb ==
    /\ caller = "web"
    /\ pc \in {"done", "failed", "aborted"}
    /\ ~finished
    /\ finished' = TRUE
    /\ CleanupTemp
    /\ UNCHANGED <<pc, caller, script, background, bgm, logOn, fontsOK, bg_final, idx, en_tts,
                   ur_tts, clips, final, nextPath, outputFile, error, logLines, events,
                   openFiles, noCleanup, calc>>

Next ==
    \/ StartCLI
    \/ StartWeb
    \/ StartDirect
    \/ LoadScript
    \/ PrepareBackground
    \/ SegmentEnglishTTS
    \/ SegmentUrduTTS
    \/ SegmentRender
    \/ Concatenate
    \/ AddBackgroundMusic
    \/ WriteVideo
    \/ FinishCLI
    \/ FinishWeb

Spec == Init /\ [][Next]_vars

\* ---------------------------------------------------------------- fonts (app/fonts.py)
\* Python's None among the path values.
NoPath == "None"
\* `if path`: None and the empty string are falsy.
Truthy(p) == p \notin {NoPath, ""}

\* Font files _candidate_font_paths() may find, in os.walk order. contains is
\* the set of lowercase names that occur in the file's lowercase basename;
\* loads tells whether ImageFont.truetype can read the file.
ArialFile == [path |-> "Fonts/arial.ttf", contains |-> {"arial"}, loads |-> TRUE]
BrokenArialFile == [path |-> "Fonts/arialbd.ttf", contains |-> {"arial"}, loads |-> FALSE]
RobotoFile == [path |-> "fonts/roboto.ttf", contains |-> {"roboto"}, loads |-> TRUE]
NastaliqFile ==
    [path |-> "fonts/noto nastaliq urdu.ttf",
     contains |-> {"noto nastaliq urdu", "nastaliq", "urdu"}, loads |-> TRUE]
NaskhFile == [path |-> "Fonts/urdu naskh.ttf", contains |-> {"urdu", "naskh"}, loads |-> TRUE]
CandidateLists ==
    { <<>>, <<ArialFile>>, <<BrokenArialFile>>, <<NastaliqFile, ArialFile>>,
      <<RobotoFile, NaskhFile>> }

\* Paths a caller or fonts_config.json may name: a good file, a file that is
\* not there, a file that is no font.
CustomFont == "my/custom.ttf"
GoneFont == "my/gone.ttf"
BrokenFont == "my/broken.ttf"
FontOverrides == {NoPath, CustomFont, GoneFont, BrokenFont}
FontConfigs ==
    { [english_font_path |-> NoPath, urdu_font_path |-> NoPath],
      [english_font_path |-> CustomFont, urdu_font_path |-> CustomFont],
      [english_font_path |-> GoneFont, urdu_font_path |-> GoneFont] }

\* os.path.isfile and ImageFont.truetype over these files.
IsFile(path, candidates) ==
    path \in {CustomFont, BrokenFont} \cup {candidates[i].path : i \in DOMAIN candidates}
TrueTypeLoads(path, candidates) ==
    \/ path = CustomFont
    \/ \E i \in DOMAIN candidates : candidates[i].path = path /\ candidates[i].loads

PREFERRED_FONTS_URDU ==
    <<"arial", "noto nastaliq urdu", "jameel noori nastaleeq",
      "jameel noori nastaleeq kasheeda", "nafees web naskh", "nafees nastaleeq">>
PREFERRED_FONTS_EN == <<"segoe ui", "arial", "roboto">>

MinOf(S) == CHOOSE m \in S : \A x \in S : m <= x

\* The first candidate whose basename contains one of the names, else None.
FirstCandidateWith(candidates, names) ==
    LET hits == {i \in DOMAIN candidates : candidates[i].contains \cap names # {}}
    IN  IF hits = {} THEN NoPath ELSE candidates[MinOf(hits)].path

\* _find_font_by_preferred_names: names in order of preference, files in order found.
FindFontByPreferredNames(preferred, candidates) ==
    LET found == {k \in DOMAIN preferred :
                     FirstCandidateWith(candidates, {preferred[k]}) # NoPath}
    IN  IF found = {} THEN NoPath
        ELSE FirstCandidateWith(candidates, {preferred[MinOf(found)]})

\* get_english_font_path that drops an override which is no file and searches on.
GetEnglishFontPathLenient(override_path, cfg, candidates) ==
    IF Truthy(override_path) /\ IsFile(override_path, candidates) THEN override_path
    ELSE IF IsFile(cfg.english_font_path, candidates) THEN cfg.english_font_path
    ELSE LET path == FindFontByPreferredNames(PREFERRED_FONTS_EN, candidates)
         IN  IF Truthy(path) THEN path ELSE FirstCandidateWith(candidates, {"arial"})

GetEnglishFontPath(override_path, cfg, candidates) ==
    IF Truthy(override_path) THEN override_path
    ELSE IF cfg.english_font_path # NoPath /\ IsFile(cfg.english_font_path, candidates)
    THEN cfg.english_font_path
    ELSE LET path == FindFontByPreferredNames(PREFERRED_FONTS_EN, candidates)
         IN  IF Truthy(path) THEN path ELSE FirstCandidateWith(candidates, {"arial"})

GetUrduFontPath(override_path, cfg, candidates) ==
    IF Truthy(override_path) THEN override_path
    ELSE IF cfg.urdu_font_path # NoPath /\ IsFile(cfg.urdu_font_path, candidates)
    THEN cfg.urdu_font_path
    ELSE LET path == FindFontByPreferredNames(PREFERRED_FONTS_URDU, candidates)
             tagged == FirstCandidateWith(candidates, {"arab", "urdu", "naskh", "nastaliq"})
         IN  IF Truthy(path) THEN path
             ELSE IF tagged # NoPath THEN tagged
             ELSE FirstCandidateWith(candidates, {"arial"})

\* load_font: the font object (told by the file it was read from), or a
\* RuntimeError whose message carries the path.
LoadFont(path, candidates) ==
    IF Truthy(path) /\ IsFile(path, candidates)
    THEN IF TrueTypeLoads(path, candidates)
         THEN [ok |-> TRUE, font |-> path, kind |-> "", path |-> path]
         ELSE [ok |-> FALSE, font |-> NoPath,
               kind |-> "RuntimeError: Failed to load font at", path |-> path]
    ELSE [ok |-> FALSE, font |-> NoPath,
          kind |-> "RuntimeError: Font path is missing or does not exist", path |-> path]

\* ---------------------------------------------------------------- text layout (app/urdu_text.py)
\* A text is the sequence of its tokens (the words between whitespace runs),
\* each given by its measured width in pixels of the scaled font.
SpaceWidth == 30
TokenWidths == {600, 1200, 2000}
MaxTokens == 3

RECURSIVE SumSeq(_)
SumSeq(ws) == IF ws = <<>> THEN 0 ELSE ws[1] + SumSeq(Tail(ws))

\* The measured width of tokens set on one line, joined by single spaces.
LineWidth(tokens) ==
    IF tokens = <<>> THEN 0 ELSE SumSeq(tokens) + SpaceWidth * (Len(tokens) - 1)

\* Greedy wrap: a token joins the current line while the line stays within
\* max_width; otherwise it starts a new line, also when it is itself too wide.
RECURSIVE WrapFrom(_, _, _, _)
WrapFrom(tokens, current, lines, max_width) ==
    IF tokens = <<>>
    THEN IF current = <<>> THEN lines ELSE Append(lines, current)
    ELSE LET t == Head(tokens)
         IN  IF current = <<>>
             THEN WrapFrom(Tail(tokens), <<t>>, lines, max_width)
             ELSE IF LineWidth(Append(current, t)) <= max_width
             THEN WrapFrom(Tail(tokens), Append(current, t), lines, max_width)
             ELSE WrapFrom(Tail(tokens), <<t>>, Append(lines, current), max_width)

\* wrap_text_ltr and wrap_text_rtl decide the breaks alike; the direction only
\* matters when the line is shaped and drawn.
WrapText(tokens, max_width) == WrapFrom(tokens, <<>>, <<>>, max_width)

\* ---------------------------------------------------------------- render_caption_frame
RenderScale == 2
\* int(VIDEO_WIDTH * 0.86) - 2 * 30, then times scale
MaxBoxWidth == ((VIDEO_WIDTH * 86) \div 100) - 2 * 30
MaxBoxWidthScaled == MaxBoxWidth * RenderScale

\* PIL: Image.resize returns an image of the size asked for, Image.new likewise;
\* crop returns an image of the size of the box.
Resize(size, to) == to
Crop(size, box) == <<box[3] - box[1], box[4] - box[2]>>
Abs(x) == IF x < 0 THEN -x ELSE x

\* alpha_composite raises ValueError("images do not match") on unequal sizes.
AlphaComposite(base, over) == IF base = over THEN base ELSE <<0, 0>>

\* Sizes of background pictures a user may supply.
BackgroundSizes == {<<1080, 1920>>, <<1920, 1080>>, <<500, 500>>, <<1085, 1920>>, <<300, 4000>>}
NoImage == <<0, 0>>

\* prepare_background_image: the size of the picture it saves.
PrepareBackgroundImage(src) ==
    LET src_w == src[1]
        src_h == src[2]
        \* abs(src_w/src_h - W/H) < 0.01, cleared of the fractions
        near == Abs(src_w * VIDEO_HEIGHT - VIDEO_WIDTH * src_h) * 100 < src_h * VIDEO_HEIGHT
        wider == src_w * VIDEO_HEIGHT > VIDEO_WIDTH * src_h
    IN  IF near THEN Resize(src, <<VIDEO_WIDTH, VIDEO_HEIGHT>>)
        ELSE IF wider
        THEN LET new_height == VIDEO_HEIGHT
                 new_width == (new_height * src_w) \div src_h
                 left == (new_width - VIDEO_WIDTH) \div 2
             IN  Crop(Resize(src, <<new_width, new_height>>),
                      <<left, 0, left + VIDEO_WIDTH, VIDEO_HEIGHT>>)
        ELSE LET new_width == VIDEO_WIDTH
                 new_height == (new_width * src_h) \div src_w
                 top == (new_height - VIDEO_HEIGHT) \div 2
             IN  Crop(Resize(src, <<new_width, new_height>>),
                      <<0, top, VIDEO_WIDTH, top + VIDEO_HEIGHT>>)

\* build_video lines 45-52: the prepared picture, or the solid fill.
BackgroundFinal(supplied) ==
    IF supplied # NoImage THEN PrepareBackgroundImage(supplied)
    ELSE <<VIDEO_WIDTH, VIDEO_HEIGHT>>

\* Line 41 with the resize forgotten: the picture is used in its own size.
OpenBackgroundKeepSize(size) == size

\* Line 41: Image.open(background_path).convert("RGB").resize((W, H)).
OpenBackground(size) == Resize(size, <<VIDEO_WIDTH, VIDEO_HEIGHT>>)

\* Lines 56 and 122-126: the text layer of scale times the frame, brought
\* down to the frame and composited onto the background; the result's size.
ComposeFrame(img) ==
    LET text_layer == <<VIDEO_WIDTH * RenderScale, VIDEO_HEIGHT * RenderScale>>
        text_layer_resized == Resize(text_layer, <<VIDEO_WIDTH, VIDEO_HEIGHT>>)
    IN  AlphaComposite(img, text_layer_resized)

\* Texts of a pair as token widths: nothing, a word, a sentence that needs
\* three lines (one word is wider than the box).
RenderTexts == {<<>>, <<600>>, <<1200, 1200, 2000>>}

\* A call of render_caption_frame. through tells whether background_path is
\* bg_final of build_video or a picture handed to the function as it is.
RenderCalls ==
    { [fn |-> "render_caption_frame", stage |-> "start",
       through |-> th, supplied |-> bgs, en |-> txt, ur |-> txt,
       english_font_path |-> eo, urdu_font_path |-> uo, cfg |-> cfg, candidates |-> cs,
       img |-> NoImage, en_resolved |-> NoPath, ur_resolved |-> NoPath,
       en_font |-> NoPath, ur_font |-> NoPath, en_lines |-> <<>>, ur_lines |-> <<>>,
       frame |-> NoImage, error |-> [kind |-> "", path |-> NoPath]] :
         th \in {"build_video", "direct"}, bgs \in BackgroundSizes \cup {NoImage},
         txt \in RenderTexts, eo \in FontOverrides, uo \in FontOverrides,
         cfg \in FontConfigs, cs \in CandidateLists }

InitRender ==
    /\ NotStarted
    /\ calc \in {c \in RenderCalls : c.through = "direct" => c.supplied # NoImage}

\* Lines 41-46: the background is opened and resized, the font paths resolved.
RenderOpen ==
    /\ calc.fn = "render_caption_frame"
    /\ calc.stage = "start"
    /\ calc' = [calc EXCEPT
          !.stage = "resolved",
          !.img = OpenBackground(IF calc.through = "build_video"
                                 THEN BackgroundFinal(calc.supplied) ELSE calc.supplied),
          !.en_resolved = GetEnglishFontPath(calc.english_font_path, calc.cfg, calc.candidates),
          !.ur_resolved = GetUrduFontPath(calc.urdu_font_path, calc.cfg, calc.candidates)]
    /\ UNCHANGED buildVars

\* Line 60: the English font is loaded, or load_font raises.
RenderLoadEnglishFont ==
    /\ calc.fn = "render_caption_frame"
    /\ calc.stage = "resolved"
    /\ LET r == LoadFont(calc.en_resolved, calc.candidates)
       IN  calc' = IF r.ok THEN [calc EXCEPT !.stage = "en_loaded", !.en_font = r.font]
                   ELSE [calc EXCEPT !.stage = "failed",
                                     !.error = [kind |-> r.kind, path |-> r.path]]
    /\ UNCHANGED buildVars

\* Line 61: the Urdu font.
RenderLoadUrduFont ==
    /\ calc.fn = "render_caption_frame"
    /\ calc.stage = "en_loaded"
    /\ LET r == LoadFont(calc.ur_resolved, calc.candidates)
       IN  calc' = IF r.ok THEN [calc EXCEPT !.stage = "fonts_loaded", !.ur_font = r.font]
                   ELSE [calc EXCEPT !.stage = "failed",
                                     !.error = [kind |-> r.kind, path |-> r.path]]
    /\ UNCHANGED buildVars

\* Lines 64-126: both texts are wrapped to the box, drawn with their fonts on
\* the text layer, and the layer is composited onto the background.
RenderDraw ==
    /\ calc.fn = "render_caption_frame"
    /\ calc.stage = "fonts_loaded"
    /\ LET out == ComposeFrame(calc.img)
       IN  calc' = IF out = NoImage
                   THEN [calc EXCEPT !.stage = "failed",
                            !.error = [kind |-> "ValueError: images do not match",
                                       path |-> NoPath]]
                   ELSE [calc EXCEPT !.stage = "frame",
                            !.en_lines = WrapText(calc.en, MaxBoxWidthScaled),
                            !.ur_lines = WrapText(calc.ur, MaxBoxWidthScaled),
                            !.frame = out]
    /\ UNCHANGED buildVars

NextRender ==
    \/ RenderOpen
    \/ RenderLoadEnglishFont
    \/ RenderLoadUrduFont
    \/ RenderDraw

SpecRender == InitRender /\ [][NextRender]_vars

\* ---------------------------------------------------------------- the wrap calls of render_caption_frame
\* Lines 64-70 wrapped to the width of the frame instead of the box.
WrapCallFrameWidth(direction, tokens) ==
    [fn |-> IF direction = "ltr" THEN "wrap_text_ltr" ELSE "wrap_text_rtl",
     stage |-> "called",
     tokens |-> tokens,
     max_width |-> VIDEO_WIDTH * RenderScale,
     lines |-> <<>>]

\* Lines 64-70: wrap_text_ltr(en, en_font_scaled, max_box_width_scaled, ...) and
\* wrap_text_rtl(ur, ur_font_scaled, max_box_width_scaled, ...).
WrapCall(direction, tokens) ==
    [fn |-> IF direction = "ltr" THEN "wrap_text_ltr" ELSE "wrap_text_rtl",
     stage |-> "called",
     tokens |-> tokens,
     max_width |-> MaxBoxWidthScaled,
     lines |-> <<>>]

InitWrap ==
    /\ NotStarted
    /\ calc \in {WrapCall(d, t) : d \in {"ltr", "rtl"}, t \in SeqsUpTo(TokenWidths, MaxTokens)}

WrapLTR ==
    /\ calc.fn = "wrap_text_ltr"
    /\ calc.stage = "called"
    /\ calc' = [calc EXCEPT !.stage = "returned",
                            !.lines = WrapText(calc.tokens, calc.max_width)]
    /\ UNCHANGED buildVars

WrapRTL ==
    /\ calc.fn = "wrap_text_rtl"
    /\ calc.stage = "called"
    /\ calc' = [calc EXCEPT !.stage = "returned",
                            !.lines = WrapText(calc.tokens, calc.max_width)]
    /\ UNCHANGED buildVars

NextWrap ==
    \/ WrapLTR
    \/ WrapRTL

SpecWrap == InitWrap /\ [][NextWrap]_vars

\* ---------------------------------------------------------------- generate_script_with_gemini
MaxItems == 3
MaxPairs == 2

\* JSON values of a response; a text is the sequence of its characters.
JStr(s) == [t |-> "str", s |-> s]
JNull == [t |-> "null", s |-> <<>>]

\* str(v): a text is itself, None reads "None".
PyStr(v) == IF v.t = "str" THEN v.s ELSE <<"N", "o", "n", "e">>

\* str.strip(): whitespace removed at both ends.
RECURSIVE LStrip(_)
LStrip(s) == IF s # <<>> /\ Head(s) = " " THEN LStrip(Tail(s)) ELSE s
RECURSIVE RStrip(_)
RStrip(s) ==
    IF s # <<>> /\ s[Len(s)] = " " THEN RStrip(SubSeq(s, 1, Len(s) - 1)) ELSE s
Strip(s) == RStrip(LStrip(s))

Hi == <<"H", "i">>
Salam == <<"S", "a", "l", "a", "m">>

\* Items of a parsed response: objects (isDict) with their keys, and a non-object.
ResponseItems ==
    { [isDict |-> FALSE, keys |-> [k \in {} |-> JNull]],
      [isDict |-> TRUE, keys |-> [en |-> JStr(Hi), ur |-> JStr(Salam)]],
      [isDict |-> TRUE, keys |-> [en |-> JStr(<<" ">> \o Hi \o <<" ">>),
                                  ur |-> JStr(Salam \o <<" ">>), note |-> JStr(Hi)]],
      [isDict |-> TRUE, keys |-> [en |-> JStr(<<" ", " ">>), ur |-> JStr(Salam)]],
      [isDict |-> TRUE, keys |-> [ur |-> JStr(Salam)]],
      [isDict |-> TRUE, keys |-> [en |-> JNull, ur |-> JStr(Salam)]],
      [isDict |-> TRUE, keys |-> [en |-> JStr(<<"G", "o">>), ur |-> JStr(<<"J", "a", "o">>)]] }

\* item.get(key, "")
ItemGet(item, key) == IF key \in DOMAIN item.keys THEN item.keys[key] ELSE JStr(<<>>)

\* Lines 128-135: the loop that collects the cleaned pairs.
RECURSIVE CleanItems(_)
CleanItems(data) ==
    IF data = <<>> THEN <<>>
    ELSE LET item == Head(data)
             rest == CleanItems(Tail(data))
         IN  IF ~item.isDict THEN rest
             ELSE LET en == Strip(PyStr(ItemGet(item, "en")))
                      ur == Strip(PyStr(ItemGet(item, "ur")))
                  IN  IF en # <<>> /\ ur # <<>>
                      THEN <<[en |-> en, ur |-> ur]>> \o rest
                      ELSE rest

\* Lines 49-50 and 120-145: what the function returns or raises for a response.
GenerateScript(response, num_pairs) ==
    IF num_pairs <= 0
    THEN [error |-> "ValueError: num_pairs must be > 0", result |-> <<>>]
    ELSE IF ~response.isList
    THEN [error |-> "RuntimeError: Gemini response JSON is not a list.", result |-> <<>>]
    ELSE LET cleaned == CleanItems(response.items)
         IN  IF cleaned = <<>>
             THEN [error |-> "RuntimeError: Gemini returned no usable en/ur pairs.",
                   result |-> <<>>]
             ELSE [error |-> "",
                   result |-> IF Len(cleaned) > num_pairs
                              THEN SubSeq(cleaned, 1, num_pairs) ELSE cleaned]

\* Parsed responses: a list of items, or a JSON value that is no list.
Responses ==
    {[isList |-> TRUE, items |-> d] : d \in SeqsUpTo(ResponseItems, MaxItems)}
        \cup {[isList |-> FALSE, items |-> <<>>]}

InitGemini ==
    /\ NotStarted
    /\ calc \in {[fn |-> "generate_script_with_gemini", stage |-> "called",
                  response |-> r, num_pairs |-> n, result |-> <<>>, error |-> ""] :
                     r \in Responses, n \in 0..MaxPairs}

GenerateScriptReturns ==
    /\ calc.fn = "generate_script_with_gemini"
    /\ calc.stage = "called"
    /\ LET out == GenerateScript(calc.response, calc.num_pairs)
       IN  calc' = [calc EXCEPT !.stage = IF out.error = "" THEN "returned" ELSE "raised",
                                !.result = out.result,
                                !.error = out.error]
    /\ UNCHANGED buildVars

NextGemini == GenerateScriptReturns

SpecGemini == InitGemini /\ [][NextGemini]_vars



\* ---------------------------------------------------------------- properties
\* The script's own reading of an entry: an absent or null number counts as 0,
\* an absent text as the empty string.
NumberOf(pair, key) ==
    IF key \in DOMAIN pair /\ ~pair[key].isnull THEN pair[key].n ELSE 0
TextOf(pair, key) == IF key \in DOMAIN pair THEN pair[key] ELSE ""
Max(a, b) == IF a >= b THEN a ELSE b

\* The run has passed the segment loop: the clips list is complete.
Assembled == pc \in {"bgm", "write", "done"} \/ (pc = "failed" /\ error = "WriteError")

\* C1: for every segment processed by build_video the English track starts at
\* 0, the Urdu track starts at exactly en_duration + 0.2 s, and the duration of
\* the segment's clip is max(ur_start + ur_duration + pause_after, min_duration).
C1_SegmentTiming ==
    \A i \in 1..Len(clips) :
        LET c == clips[i]
            pair == script.items[i]
        IN  /\ c.en_start = 0
            /\ c.ur_start = c.en_duration + 200
            /\ c.duration = Max(c.ur_start + c.ur_duration + NumberOf(pair, "pause_after"),
                                NumberOf(pair, "min_duration"))

\* C1 witness: en = 1.0 s, ur = 1.2 s, no pause, min_duration = 5.0 s gives a
\* segment of 5.0 s whose Urdu track still starts at 1.2 s.
C1_Witness ==
    \E i \in 1..Len(clips) :
        /\ clips[i].en_duration = 1000
        /\ clips[i].ur_duration = 1200
        /\ NumberOf(script.items[i], "pause_after") = 0
        /\ NumberOf(script.items[i], "min_duration") = 5000
        /\ clips[i].ur_start = 1200
        /\ clips[i].duration = 5000

\* C2: with en_duration, ur_duration, pause_after and min_duration all >= 0 the
\* segment duration is >= en_duration + 0.2 s + ur_duration, >= min_duration, and
\* never below the natural value ur_start + ur_duration + pause_after.
C2_DurationLowerBounds ==
    \A i \in 1..Len(clips) :
        LET c == clips[i]
            pause == NumberOf(script.items[i], "pause_after")
            floor == NumberOf(script.items[i], "min_duration")
        IN  (c.en_duration >= 0 /\ c.ur_duration >= 0 /\ pause >= 0 /\ floor >= 0)
                => /\ c.duration >= c.en_duration + 200 + c.ur_duration
                   /\ c.duration >= floor
                   /\ c.duration >= c.ur_start + c.ur_duration + pause

\* C2 witness: one run holds a segment that min_duration extended and a segment
\* whose positive pause_after made it longer than its speech.
C2_Witness ==
    /\ \E i \in 1..Len(clips) :
        /\ NumberOf(script.items[i], "min_duration") > 0
        /\ clips[i].duration = NumberOf(script.items[i], "min_duration")
        /\ clips[i].duration > clips[i].ur_end
    /\ \E j \in 1..Len(clips) :
        /\ NumberOf(script.items[j], "pause_after") > 0
        /\ clips[j].en_duration > 0
        /\ clips[j].duration > clips[j].en_duration + 200 + clips[j].ur_duration

\* C3 as stated: when both speech durations are 0 the segment lasts
\* max(pause_after, min_duration), and no segment has a zero or negative
\* duration or a negative start offset.
C3_AsStated ==
    \A i \in 1..Len(clips) :
        LET c == clips[i]
            pause == NumberOf(script.items[i], "pause_after")
            floor == NumberOf(script.items[i], "min_duration")
        IN  /\ (c.en_duration = 0 /\ c.ur_duration = 0) => c.duration = Max(pause, floor)
            /\ c.duration > 0
            /\ c.en_start >= 0
            /\ c.ur_start >= 0

\* C3 amended: when both speech durations are 0 the segment lasts
\* max(0.2 s + pause_after, min_duration), the teaching gap still being counted;
\* no start offset is negative (English at 0, Urdu at 0.2 s or later); the
\* duration is at least 0.2 s + pause_after and at least min_duration, hence
\* positive for every pause_after >= 0.
C3_DegenerateTiming ==
    \A i \in 1..Len(clips) :
        LET c == clips[i]
            pause == NumberOf(script.items[i], "pause_after")
            floor == NumberOf(script.items[i], "min_duration")
        IN  /\ (c.en_duration = 0 /\ c.ur_duration = 0) => c.duration = Max(200 + pause, floor)
            /\ c.en_start = 0
            /\ c.ur_start >= 200
            /\ c.duration >= 200 + pause
            /\ c.duration >= floor
            /\ pause >= 0 => c.duration > 0

\* C3 witness: a segment whose two speech clips both measure 0.
C3_Witness ==
    \E i \in 1..Len(clips) :
        /\ clips[i].en_duration = 0
        /\ clips[i].ur_duration = 0
        /\ clips[i].duration = 200 + NumberOf(script.items[i], "pause_after")

RECURSIVE TotalDuration(_)
TotalDuration(cs) == IF cs = <<>> THEN 0 ELSE Head(cs).duration + TotalDuration(Tail(cs))

\* C4: the timeline handed to the writer lasts exactly the sum of the segment
\* durations; the first segment starts at 0, each next one starts where the
\* previous one ends, and the music step leaves the total unchanged.
C4_TimelineIsSum ==
    Assembled =>
        /\ Len(clips) >= 1
        /\ final.duration = TotalDuration(clips)
        /\ Len(final.starts) = Len(clips)
        /\ final.starts[1] = 0
        /\ \A i \in 1..(Len(clips) - 1) :
              final.starts[i + 1] = final.starts[i] + clips[i].duration
        /\ final.starts[Len(clips)] + clips[Len(clips)].duration = final.duration

\* C4 witness: a timeline of two segments of different lengths, music mixed in,
\* about to be written.
C4_Witness ==
    /\ pc = "write"
    /\ Len(clips) = 2
    /\ clips[1].duration # clips[2].duration
    /\ final.audio = "speech+bgm"

\* C5: the clips passed to concatenation are one per script segment, in script
\* order: clip i carries the texts of entry i, the two speech files synthesized
\* for segment i (no file is shared between clips) and entry i's own duration.
C5_OneClipPerSegment ==
    Assembled =>
        /\ Len(clips) = Len(script.items)
        /\ \A i \in 1..Len(clips) :
              LET c == clips[i]
                  pair == script.items[i]
              IN  /\ c.seg = i
                  /\ c.en_text = TextOf(pair, "en")
                  /\ c.ur_text = TextOf(pair, "ur")
                  /\ Call("generate_english_tts", i, c.en_path) \in {events[k] : k \in DOMAIN events}
                  /\ Call("generate_urdu_tts", i, c.ur_path) \in {events[k] : k \in DOMAIN events}
                  /\ c.en_path # c.ur_path
                  /\ c.duration = Max(c.en_duration + 200 + c.ur_duration
                                        + NumberOf(pair, "pause_after"),
                                      NumberOf(pair, "min_duration"))
        /\ \A i, j \in 1..Len(clips) :
              i # j => {clips[i].en_path, clips[i].ur_path}
                          \cap {clips[j].en_path, clips[j].ur_path} = {}

\* C5 witness: a finished run over two segments with different texts.
C5_Witness ==
    /\ pc = "done"
    /\ Len(clips) = 2
    /\ clips[1].en_text # clips[2].en_text
    /\ clips[1].duration # clips[2].duration

\* The run has passed the music step.
MusicStepDone == pc \in {"write", "done"} \/ (pc = "failed" /\ error = "WriteError")

\* C6: when background music is supplied and loads, the music track mixed into
\* the timeline is exactly as long as the timeline, whether the music was
\* shorter (looped by whole copies that cover the timeline, then trimmed) or
\* longer or equal (only trimmed).
C6_MusicMatchesTimeline ==
    (MusicStepDone /\ bgm.given /\ bgm.loads /\ final.audio = "speech+bgm") =>
        /\ final.bgmLen = final.duration
        /\ bgm.duration < final.duration =>
              /\ final.loops >= 1
              /\ final.loops * bgm.duration >= final.duration
        /\ bgm.duration >= final.duration => final.loops = 0

\* C6 witness: music shorter than the timeline was looped past its end and
\* trimmed back to it.
C6_Witness ==
    /\ MusicStepDone
    /\ final.audio = "speech+bgm"
    /\ bgm.duration > 0
    /\ bgm.duration < final.duration
    /\ final.loops * bgm.duration > final.duration
    /\ final.bgmLen = final.duration

\* C7: when a step of the music block fails, the run goes on to the writer with
\* the timeline exactly as concatenation left it, and a warning is recorded.
C7_MusicFailureIsWarned ==
    (MusicStepDone /\ bgm.given /\ final.audio # "speech+bgm") =>
        /\ final = ConcatenateClips(clips)
        /\ \E k \in DOMAIN logLines : logLines[k].kind = "warning"

\* C8: an empty script list makes build_video raise its input error before it
\* has issued any call: no temp directory or file of its own, no synthesis, no
\* rendering, no writer, and nothing at output_path.
C8_EmptyScriptFailsFirst ==
    (script.isList /\ script.items = <<>> /\ pc \notin {"idle", "load", "aborted"}) =>
        /\ pc = "failed"
        /\ error = "ValueError: Script is empty"
        /\ events = <<>>
        /\ outputFile = "untouched"
        /\ caller # "web" => (~tempDirs /\ tempFiles = {})
        /\ \A f \in tempFiles : f.kind = "script" \/ f.path < nextPath

\* C8 witness: the command-line front end was given an empty list and
\* build_video has raised.
C8_Witness ==
    /\ caller = "cli"
    /\ script.isList
    /\ script.items = <<>>
    /\ pc = "failed"
    /\ error = "ValueError: Script is empty"

\* A script that is not a sequence, or that has an entry with neither en nor ur.
Malformed(s) ==
    \/ ~s.isList
    \/ \E i \in 1..Len(s.items) : "en" \notin DOMAIN s.items[i] /\ "ur" \notin DOMAIN s.items[i]

\* C9: a malformed script is a fatal input error: build_video never synthesizes,
\* renders or writes anything for it and never completes.
C9_MalformedScriptIsFatal ==
    (pc # "idle" /\ Malformed(script)) =>
        /\ \A k \in DOMAIN events :
              events[k].op \notin {"generate_english_tts", "generate_urdu_tts",
                                   "render_caption_frame", "write_videofile"}
        /\ pc # "done"
        /\ pc = "failed" => error \in {"ValueError: Script must be a list of {en, ur} objects",
                                       "ValueError: Script is empty"}

\* C10: whenever build_video has ended with a fatal error, output_path holds no
\* partial file: it is untouched or holds a complete video.
C10_NoPartialOutput ==
    pc = "failed" => outputFile # "partial"

\* ---------------------------------------------------------------- cleanup
\* C11: once a render started from the command line without --no-cleanup, or
\* from the web front end, has ended (build_video returned or raised anywhere),
\* no temporary audio, image or script file of the run is left.
C11_TempArtifactsRemoved ==
    (finished /\ (caller = "web" \/ (caller = "cli" /\ ~noCleanup))) => tempFiles = {}

\* ---------------------------------------------------------------- synthesis failure
\* The named error the interface asks for: it tells the segment and the language.
SynthesisErrorFor(seg, voice) ==
    "SynthesisError: segment " \o ToString(seg) \o " " \o voice

\* build_video has ended by an exception of a synthesis call.
SynthesisFailed ==
    /\ pc = "failed"
    /\ events # <<>>
    /\ events[Len(events)].op \in {"generate_english_tts", "generate_urdu_tts"}

\* C12: when synthesis fails for a language of a segment, build_video ends with
\* a named error that identifies that segment and language; the failing segment
\* is the last one touched, it yields no clip, and the writer is never invoked.
C12_SynthesisFailureIsNamed ==
    SynthesisFailed =>
        LET last == events[Len(events)]
            voice == IF last.op = "generate_english_tts" THEN "english" ELSE "urdu"
        IN  /\ error = SynthesisErrorFor(last.seg, voice)
            /\ \A k \in DOMAIN events : events[k].seg <= last.seg
            /\ Len(clips) = last.seg - 1
            /\ \A k \in DOMAIN events :
                  events[k].op \notin {"concatenate_videoclips", "write_videofile"}
            /\ outputFile = "untouched"

\* ---------------------------------------------------------------- tracks inside the segment
\* C16: in every segment each speech track lies inside the segment: the English
\* track ends no later than the segment, and so does the Urdu track, for every
\* pause_after and min_duration that build_video takes from the script.
C16_TracksInsideSegment ==
    \A i \in 1..Len(clips) :
        /\ clips[i].en_end <= clips[i].duration
        /\ clips[i].ur_end <= clips[i].duration

\* ---------------------------------------------------------------- order of the steps
SegmentOps == <<"generate_english_tts", "generate_urdu_tts", "render_caption_frame">>
AssemblyOps == {"concatenate_videoclips", "bgm", "write_videofile"}
SegmentEvents(evs) == SelectSeq(evs, LAMBDA e : e.seg > 0)

\* C17: the calls on segments come strictly in script order (English synthesis,
\* Urdu synthesis, frame, for segment i before anything of segment i+1), and
\* concatenation, the music step and the writer come only after all three calls
\* of every segment, when each clip carries both measured durations.
C17_AssemblyAfterAllSegments ==
    LET se == SegmentEvents(events)
        N == Len(script.items)
    IN  /\ \A k \in 1..Len(se) :
              /\ se[k].seg = ((k - 1) \div 3) + 1
              /\ se[k].op = SegmentOps[((k - 1) % 3) + 1]
        /\ \A k \in DOMAIN events :
              events[k].op \in AssemblyOps =>
                  /\ Len(SegmentEvents(SubSeq(events, 1, k - 1))) = 3 * N
                  /\ Len(clips) = N
                  /\ \A i \in 1..N :
                        /\ clips[i].seg = i
                        /\ clips[i].en_duration
                               \in SpeechDurations("english", TextOf(script.items[i], "en"))
                        /\ clips[i].ur_duration
                               \in SpeechDurations("urdu", TextOf(script.items[i], "ur"))

\* C17 witness: a two-segment run has reached the writer.
C17_Witness ==
    /\ Len(script.items) = 2
    /\ Len(SegmentEvents(events)) = 6
    /\ events[Len(events)].op = "write_videofile"

\* ---------------------------------------------------------------- fades
\* C18 as stated: every segment gets fades of one and the same length on its
\* frame and on its audio mix.
C18_AsStated ==
    \A i \in 1..Len(clips) :
        /\ clips[i].audio_fade = clips[i].video_fade
        /\ clips[i].video_fade = clips[1].video_fade

\* C18, amended: every segment gets a 0.5 s fade in and out on its frame and a
\* 0.12 s fade in and out on its audio mix; each of the two lengths is fixed and
\* the same for every segment, and the audio fade is the shorter one.
C18_FadesFixedPerTrack ==
    \A i \in 1..Len(clips) :
        /\ clips[i].video_fade = 500
        /\ clips[i].audio_fade = 120
        /\ clips[i].audio_fade < clips[i].video_fade

\* C18 witness: two faded segments, the second one shorter than its two video fades.
C18_Witness ==
    /\ Len(clips) = 2
    /\ clips[2].duration < 2 * clips[2].video_fade
    /\ clips[1].duration > 2 * clips[1].video_fade

\* ---------------------------------------------------------------- defaults of the optional keys
\* The key is absent, null or 0.
Unset(pair, key) == key \notin DOMAIN pair \/ pair[key].isnull \/ pair[key].n = 0

DefaultsAsZero ==
    \A i \in 1..Len(clips) :
        LET pair == script.items[i]
            natural == clips[i].en_duration + 200 + clips[i].ur_duration
        IN  /\ (Unset(pair, "pause_after") /\ Unset(pair, "min_duration"))
                  => clips[i].duration = natural
            /\ (Unset(pair, "pause_after") /\ ~Unset(pair, "min_duration"))
                  => clips[i].duration = Max(natural, pair.min_duration.n)
            /\ (~Unset(pair, "pause_after") /\ Unset(pair, "min_duration"))
                  => clips[i].duration = Max(natural + pair.pause_after.n, 0)

\* C19: a segment whose pause_after or min_duration is absent, null or 0 is
\* scheduled as with the value 0 (duration en + 0.2 + ur, plus the effect of the
\* other key), and build_video never changes the script it has read.
C19_DefaultsAndImmutableScript ==
    /\ []DefaultsAsZero
    /\ [][pc # "idle" => script' = script]_vars

\* C19 witness: a finished run with a segment of null keys and one of absent keys.
C19_Witness ==
    /\ pc = "done"
    /\ Len(clips) = 2
    /\ "pause_after" \in DOMAIN script.items[1] /\ script.items[1].pause_after.isnull
    /\ script.items[1].min_duration.isnull
    /\ DOMAIN script.items[2] = {"en", "ur"}
    /\ clips[1].duration = 1000 + 200 + 1200
    /\ clips[2].duration = 1200 + 200 + 1200

\* ---------------------------------------------------------------- fonts of the frame
\* The file at the path is there and is a font ImageFont.truetype reads.
FontUsable(path, candidates) ==
    Truthy(path) /\ IsFile(path, candidates) /\ TrueTypeLoads(path, candidates)

\* C13: when the font resolved for a language is missing or unreadable (an
\* override path that does not exist included), render_caption_frame fails
\* with an error that names that path; an override is never exchanged for
\* another font, and a frame is only drawn with both resolved fonts loaded.
C13_FontFailureNamesPath ==
    (calc.fn = "render_caption_frame" /\ calc.stage \notin {"start", "resolved"}) =>
        LET enBad == ~FontUsable(calc.en_resolved, calc.candidates)
            urBad == ~FontUsable(calc.ur_resolved, calc.candidates)
        IN  /\ Truthy(calc.english_font_path) => calc.en_resolved = calc.english_font_path
            /\ Truthy(calc.urdu_font_path) => calc.ur_resolved = calc.urdu_font_path
            /\ enBad => /\ calc.stage = "failed"
                        /\ calc.error.path = calc.en_resolved
                        /\ calc.en_font = NoPath
                        /\ calc.frame = NoImage
            /\ (~enBad /\ urBad /\ calc.stage # "en_loaded") =>
                        /\ calc.stage = "failed"
                        /\ calc.error.path = calc.ur_resolved
                        /\ calc.ur_font = NoPath
                        /\ calc.frame = NoImage
            /\ calc.stage \in {"fonts_loaded", "frame"} =>
                        /\ calc.en_font = calc.en_resolved
                        /\ calc.ur_font = calc.ur_resolved
                        /\ ~enBad /\ ~urBad

\* C13 witness: the English override names a file that is not there while an
\* Arial is installed; the call has failed naming the override.
C13_Witness ==
    /\ calc.fn = "render_caption_frame"
    /\ calc.stage = "failed"
    /\ calc.english_font_path = GoneFont
    /\ calc.candidates = <<ArialFile>>
    /\ calc.error.path = GoneFont

\* ---------------------------------------------------------------- size of the frame
\* C14: every frame render_caption_frame returns is VIDEO_WIDTH x VIDEO_HEIGHT
\* (1080 x 1920), whatever the size of the background and the amount of text;
\* without a supplied background the solid fill has that size too; the call
\* never fails over sizes.
C14_FrameSizeFixed ==
    calc.fn = "render_caption_frame" =>
        /\ calc.stage = "frame" => calc.frame = <<1080, 1920>>
        /\ (calc.through = "build_video" /\ calc.stage # "start") => calc.img = <<1080, 1920>>
        /\ calc.stage = "failed" => calc.error.path # NoPath \/ calc.error.kind =
                                       "RuntimeError: Font path is missing or does not exist"

\* C14 witness: a frame over a landscape picture handed in as it is, with
\* texts of three lines each.
C14_Witness ==
    /\ calc.fn = "render_caption_frame"
    /\ calc.stage = "frame"
    /\ calc.through = "direct"
    /\ calc.supplied = <<1920, 1080>>
    /\ Len(calc.en_lines) = 3

\* ---------------------------------------------------------------- wrapping
WrapReturned == calc.fn \in {"wrap_text_ltr", "wrap_text_rtl"} /\ calc.stage = "returned"

\* Every line fits the box, or is one token that is itself wider than the box.
LinesFit ==
    \A k \in DOMAIN calc.lines :
        \/ LineWidth(calc.lines[k]) <= MaxBoxWidthScaled
        \/ Len(calc.lines[k]) = 1 /\ calc.lines[k][1] > MaxBoxWidthScaled

UsableItem(item) ==
    /\ item.isDict
    /\ \A key \in {"en", "ur"} :
          /\ key \in DOMAIN item.keys
          /\ item.keys[key].t = "str"
          /\ Strip(item.keys[key].s) # <<>>

UsableItems(data) == SelectSeq(data, UsableItem)

\* C20: for a parsed list and num_pairs > 0, generate_script_with_gemini
\* returns the usable entries (en and ur stripped) in their order, cut to the
\* first num_pairs: 1 to num_pairs entries; it raises only when no entry is
\* usable, and then it does raise.
C20_UsableEntriesTruncated ==
    (/\ calc.fn = "generate_script_with_gemini"
     /\ calc.stage \in {"returned", "raised"}
     /\ calc.response.isList
     /\ calc.num_pairs > 0) =>
        LET usable == UsableItems(calc.response.items)
            n == IF Len(usable) > calc.num_pairs THEN calc.num_pairs ELSE Len(usable)
        IN  /\ (calc.stage = "raised") <=> (usable = <<>>)
            /\ calc.stage = "returned" =>
                  /\ Len(calc.result) = n
                  /\ Len(calc.result) \in 1..calc.num_pairs
                  /\ \A k \in 1..n :
                        /\ calc.result[k].en = Strip(usable[k].keys.en.s)
                        /\ calc.result[k].ur = Strip(usable[k].keys.ur.s)

====
